---------------------------- MODULE Spec2Model ----------------------------
(***************************************************************************)
(* Model of gambit's classification engine (gambit/classify.py) and of the *)
(* many-vs-many distance matrix (gambit.metric.jaccarddist_matrix).        *)
(*                                                                         *)
(* Distances and thresholds are floats in the program; only their order is *)
(* ever used by classify.py, so they are modelled as integers counting     *)
(* hundredths (0.05 is 5, 0.3 is 30).  Python's None is the string "none"  *)
(* for taxa and messages, and the empty set for optional numbers and       *)
(* records (an optional value is a set of at most one element).  Python    *)
(* positions are 0-based, sequence positions here are 1-based.             *)
(***************************************************************************)
EXTENDS Integers, Sequences, FiniteSets, TLC

VARIABLES
    threshold,  \* the database: distance_threshold of every taxon
    pc,         \* "idle" before the call to the classification engine, "done" after
    call,       \* the call made: the function and its arguments
    ret,        \* what it returned
    mpc,        \* jaccarddist_matrix: "idle", "running", "done"
    mcall,      \* its arguments
    out,        \* its output matrix
    tasks,      \* the (query, chunk) units of work not yet done
    progress    \* the units reported to the progress sink

cvars == <<threshold, pc, call, ret>>

mvars == <<mpc, mcall, out, tasks, progress>>

vars == <<threshold, pc, call, ret, mpc, mcall, out, tasks, progress>>

None == "none"

(***************************************************************************)
(* The taxonomy: two trees.  Root -> {A -> {A1, A2}, B -> {B1}} and the    *)
(* one-node tree X.                                                        *)
(***************************************************************************)
Taxa == {"Root", "A", "B", "A1", "A2", "B1", "X"}

Parent ==
    [t \in Taxa |->
        CASE t = "A"  -> "Root"
          [] t = "B"  -> "Root"
          [] t = "A1" -> "A"
          [] t = "A2" -> "A"
          [] t = "B1" -> "B"
          [] OTHER    -> None]

\* Taxon.ancestors(incself=True): the taxon first, its root last.
RECURSIVE Lineage(_)
Lineage(t) == IF t = None THEN <<>> ELSE <<t>> \o Lineage(Parent[t])

\* Taxon.ancestors(incself)
Ancestors(t, incself) == IF incself THEN Lineage(t) ELSE Lineage(Parent[t])

\* Taxon.distance_threshold for every taxon: the databases the model runs on.
ThresholdMaps ==
    { [t \in Taxa |->
          CASE t \in {"A1", "A2", "B1", "X"} -> {10}
            [] t \in {"A", "B"}              -> {30}
            [] OTHER                         -> {}],
      [t \in Taxa |->
          CASE t = "A1"   -> {10}
            [] t = "B"    -> {30}
            [] t = "Root" -> {40}
            [] OTHER      -> {}],
      [t \in Taxa |->
          CASE t \in {"A1", "B1"} -> {30}
            [] t \in {"A", "B"}   -> {10}
            [] t = "A2"           -> {5}
            [] OTHER              -> {}] }

\* the distances a reference genome can be at
Dists == {5, 7, 20}

\* the distances matching_taxon is called with: those, the thresholds
\* themselves and one above every threshold
MatchDists == Dists \cup {10, 30, 40, 50}

\* the taxa reference genomes are assigned to
GenomeTaxa == {"A", "A1", "A2", "B1", "X"}

MaxTaxa == 3
MaxGenomes == 3

SeqsUpTo(S, n) == UNION { [1..k -> S] : k \in 0..n }

Range(s) == { s[k] : k \in 1..Len(s) }

\* list.index(x), 0 standing for ValueError
IndexOf(s, x) ==
    IF \E k \in 1..Len(s) : s[k] = x
    THEN CHOOSE k \in 1..Len(s) : s[k] = x /\ \A j \in 1..(k-1) : s[j] # x
    ELSE 0

---------------------------------------------------------------------------
(* matching_taxon *)

RECURSIVE matching_loop(_, _, _)
matching_loop(chain, k, d) ==
    IF k > Len(chain) THEN None
    ELSE IF threshold[chain[k]] # {} /\ (\A x \in threshold[chain[k]] : d <= x)
         THEN chain[k]
         ELSE matching_loop(chain, k + 1, d)

matching_taxon_noself(taxon, d) == matching_loop(Ancestors(taxon, FALSE), 1, d)

matching_taxon(taxon, d) == matching_loop(Ancestors(taxon, TRUE), 1, d)

---------------------------------------------------------------------------
(* find_matches: the dict is its keys in insertion order and the index     *)
(* list of every key.                                                      *)

find_matches_add(matches, i, match) ==
    IF match = None THEN matches
    ELSE IF match \in Range(matches.keys)
         THEN [matches EXCEPT !.idxs[match] = Append(@, i)]
         ELSE [keys |-> Append(matches.keys, match),
               idxs |-> [t \in Taxa |-> IF t = match THEN <<i>> ELSE matches.idxs[t]]]

RECURSIVE find_matches_loop(_, _, _, _)
find_matches_loop(genomes, dists, i, matches) ==
    IF i > Len(genomes) THEN matches
    ELSE find_matches_loop(genomes, dists, i + 1,
            find_matches_add(matches, i, matching_taxon(genomes[i], dists[i])))

find_matches(genomes, dists) ==
    find_matches_loop(genomes, dists, 1, [keys |-> <<>>, idxs |-> [t \in Taxa |-> <<>>]])

---------------------------------------------------------------------------
(* consensus_taxon *)

\* the inner for loop: position in trunk of the first ancestor found in it,
\* 0 when the loop ends without a break
RECURSIVE lowest_in_trunk(_, _, _)
lowest_in_trunk(trunk, anc, k) ==
    IF k > Len(anc) THEN 0
    ELSE IF IndexOf(trunk, anc[k]) # 0 THEN IndexOf(trunk, anc[k])
         ELSE lowest_in_trunk(trunk, anc, k + 1)

\* one pass of the outer for loop; st.failed is the early return
consensus_step_nodown(st, taxon) ==
    IF st.failed \/ taxon \in Range(st.trunk) THEN st
    ELSE LET i == lowest_in_trunk(st.trunk, Ancestors(taxon, FALSE), 1) IN
         IF i = 0 THEN [st EXCEPT !.failed = TRUE]
         ELSE IF i = 1 THEN st
         ELSE [st EXCEPT !.crown = @ \cup {st.trunk[1], taxon},
                         !.trunk = SubSeq(st.trunk, i, Len(st.trunk))]

consensus_step_onecrown(st, taxon) ==
    IF st.failed \/ taxon \in Range(st.trunk) THEN st
    ELSE LET i == lowest_in_trunk(st.trunk, Ancestors(taxon, FALSE), 1) IN
         IF i = 0 THEN [st EXCEPT !.failed = TRUE]
         ELSE IF i = 1 THEN [st EXCEPT !.trunk = Ancestors(taxon, TRUE)]
         ELSE [st EXCEPT !.crown = @ \cup {taxon},
                         !.trunk = SubSeq(st.trunk, i, Len(st.trunk))]

consensus_step(st, taxon) ==
    IF st.failed \/ taxon \in Range(st.trunk) THEN st
    ELSE LET i == lowest_in_trunk(st.trunk, Ancestors(taxon, FALSE), 1) IN
         IF i = 0 THEN [st EXCEPT !.failed = TRUE]
         ELSE IF i = 1 THEN [st EXCEPT !.trunk = Ancestors(taxon, TRUE)]
         ELSE [st EXCEPT !.crown = @ \cup {st.trunk[1], taxon},
                         !.trunk = SubSeq(st.trunk, i, Len(st.trunk))]

RECURSIVE consensus_loop(_, _, _)
consensus_loop(taxa, k, st) ==
    IF k > Len(taxa) THEN st
    ELSE consensus_loop(taxa, k + 1, consensus_step(st, taxa[k]))

consensus_taxon(taxa) ==
    IF taxa = <<>> THEN [consensus |-> None, crown |-> {}]
    ELSE LET st == consensus_loop(taxa, 2,
                      [trunk |-> Ancestors(taxa[1], TRUE), crown |-> {}, failed |-> FALSE])
         IN IF st.failed THEN [consensus |-> None, crown |-> Range(taxa)]
            ELSE [consensus |-> IF st.trunk # <<>> THEN st.trunk[1] ELSE None,
                  crown |-> st.crown]

---------------------------------------------------------------------------
(* classify.  A reference genome is its position in ref_genomes, which    *)
(* holds the taxon of every genome; a GenomeMatch is a record.            *)

\* float('inf'): above every distance
Inf == 1000

\* np.argmin: the first position of the least distance
argmin_last(dists) ==
    CHOOSE i \in 1..Len(dists) :
        /\ \A j \in 1..Len(dists) : dists[i] <= dists[j]
        /\ \A j \in (i+1)..Len(dists) : dists[j] > dists[i]

argmin(dists) ==
    CHOOSE i \in 1..Len(dists) :
        /\ \A j \in 1..Len(dists) : dists[i] <= dists[j]
        /\ \A j \in 1..(i-1) : dists[j] > dists[i]

GenomeMatch(genome, distance, matched_taxon) ==
    [genome |-> genome, distance |-> distance, matched_taxon |-> matched_taxon]

closest_match_of_first(ref_genomes, dists) ==
    GenomeMatch(1, dists[1], matching_taxon(ref_genomes[1], dists[1]))

closest_match_of(ref_genomes, dists) ==
    LET closest == argmin(dists) IN
    GenomeMatch(closest, dists[closest], matching_taxon(ref_genomes[closest], dists[closest]))

\* `if not matches`
no_matches_never(matches) == FALSE

no_matches(matches) == matches.keys = <<>>

\* the loop over idxs: best is (best_i, best_d, best_taxon), best_i = 0 for None
RECURSIVE best_in_group(_, _, _, _, _)
best_in_group(dists, taxon, idxs, k, best) ==
    IF k > Len(idxs) THEN best
    ELSE best_in_group(dists, taxon, idxs, k + 1,
            IF dists[idxs[k]] < best.d
            THEN [i |-> idxs[k], d |-> dists[idxs[k]], taxon |-> taxon]
            ELSE best)

\* `if consensus not in taxon.ancestors(incself=True): continue`
skip_group_never(consensus, taxon) == FALSE

skip_group(consensus, taxon) == consensus \notin Range(Ancestors(taxon, TRUE))

\* the loop over matches.items()
RECURSIVE best_over_groups(_, _, _, _, _)
best_over_groups(matches, dists, consensus, g, best) ==
    IF g > Len(matches.keys) THEN best
    ELSE LET taxon == matches.keys[g] IN
         best_over_groups(matches, dists, consensus, g + 1,
            IF skip_group(consensus, taxon) THEN best
            ELSE best_in_group(dists, taxon, matches.idxs[taxon], 1, best))

inconsistent_warning(others) ==
    [kind |-> "inconsistent", n |-> Cardinality(others), taxa |-> others]

not_closest_warning == [kind |-> "not_closest", n |-> 0, taxa |-> {}]

ClassifierResult(success, predicted_taxon, primary_match, closest_match, warnings, error) ==
    [raised |-> None, success |-> success, predicted_taxon |-> predicted_taxon,
     primary_match |-> primary_match, closest_match |-> closest_match,
     warnings |-> warnings, error |-> error]

\* an exception leaves classify: no result
Raised(exc, closest_match) ==
    [raised |-> exc, success |-> FALSE, predicted_taxon |-> None,
     primary_match |-> {}, closest_match |-> closest_match,
     warnings |-> <<>>, error |-> None]

classify_strict(ref_genomes, dists, closest_match) ==
    LET matches == find_matches(ref_genomes, dists)
        cons == consensus_taxon(matches.keys)
        consensus == cons.consensus
        others == cons.crown
    IN
    IF no_matches(matches)
    THEN ClassifierResult(TRUE, None, {}, closest_match, <<>>, None)
    ELSE LET best == IF consensus = None THEN [i |-> 0, d |-> Inf, taxon |-> None]
                     ELSE best_over_groups(matches, dists, consensus, 1,
                                           [i |-> 0, d |-> Inf, taxon |-> None])
         IN
         IF consensus # None /\ best.i = 0
         THEN Raised("AssertionError", closest_match)
         ELSE LET primary_match == IF consensus = None THEN {}
                                   ELSE {GenomeMatch(best.i, best.d, best.taxon)}
                  w1 == IF others # {} THEN <<inconsistent_warning(others)>> ELSE <<>>
                  w2 == IF \E m \in primary_match : m.genome # closest_match.genome
                        THEN <<not_closest_warning>> ELSE <<>>
              IN ClassifierResult(
                    consensus # None,
                    consensus,
                    primary_match,
                    closest_match,
                    w1 \o w2,
                    IF consensus = None THEN "Matched taxa have no common ancestor."
                    ELSE None)

classify(ref_genomes, dists, strict) ==
    LET closest_match == closest_match_of(ref_genomes, dists) IN
    IF ~strict
    THEN ClassifierResult(
            TRUE,
            closest_match.matched_taxon,
            IF closest_match.matched_taxon # None THEN {closest_match} ELSE {},
            closest_match,
            <<>>,
            None)
    ELSE classify_strict(ref_genomes, dists, closest_match)

---------------------------------------------------------------------------
(* GenomeMatch built by its constructor.  The objects it is given are      *)
(* records: only a Taxon has ancestors().                                  *)

AnnotatedGenome(taxon) == [kind |-> "AnnotatedGenome", taxon |-> taxon]

\* matching_taxon called with any object: `taxon.ancestors(incself=True)`
\* raises AttributeError on an object that is no Taxon
matching_taxon_call(obj, d) ==
    IF obj.kind = "Taxon"
    THEN [raised |-> None, taxon |-> matching_taxon(obj.taxon, d)]
    ELSE [raised |-> "AttributeError", taxon |-> None]

\* GenomeMatch._matched_taxon_default: matching_taxon(self.genome, self.distance)
matched_taxon_default(genome, distance) == matching_taxon_call(genome, distance)

\* GenomeMatch(genome, distance[, matched_taxon]): given is the matched_taxon
\* passed, empty when it is left to the default
GenomeMatch_init(genome, distance, given) ==
    IF given # {}
    THEN [raised |-> None, genome |-> genome, distance |-> distance,
          matched_taxon |-> CHOOSE x \in given : TRUE]
    ELSE LET r == matched_taxon_default(genome, distance) IN
         [raised |-> r.raised, genome |-> genome, distance |-> distance,
          matched_taxon |-> r.taxon]

---------------------------------------------------------------------------
(* The metric engine.  A signature is a strictly ascending sequence of     *)
(* k-mer codes; a distance is the exact fraction <<numerator,              *)
(* denominator>> in lowest terms.                                          *)

\* the signatures of the test fixture `sigs`
sigs == << <<1, 2>>, <<2, 3>>, <<1, 2, 3>>, <<4>>, <<1, 3, 4>>, <<2, 4>>, <<1, 2, 3, 4>> >>

MaxQueries == 2
MaxRefs == 3
MaxChunk == 2

\* the query collection: m signatures, every second one of sigs
queries_of(m) == [k \in 1..m |-> sigs[2 * k - 1]]

\* the reference collection: n signatures of sigs, past its first
refs_of(n) == [k \in 1..n |-> sigs[k + 1]]

\* the ordered lists of distinct positions of a collection of n
IndexLists(n) ==
    { S \in UNION { [1..k -> 1..n] : k \in 1..n } :
        \A a \in 1..Len(S), b \in 1..Len(S) : a # b => S[a] # S[b] }

\* the merge scan: two cursors, the smaller advances, equal elements count
RECURSIVE intersection_size(_, _, _, _, _)
intersection_size(a, b, i, j, n) ==
    IF i > Len(a) \/ j > Len(b) THEN n
    ELSE IF a[i] = b[j] THEN intersection_size(a, b, i + 1, j + 1, n + 1)
    ELSE IF a[i] < b[j] THEN intersection_size(a, b, i + 1, j, n)
    ELSE intersection_size(a, b, i, j + 1, n)

RECURSIVE GCD(_, _)
GCD(x, y) == IF y = 0 THEN x ELSE GCD(y, x % y)

Fraction(num, den) == <<num \div GCD(num, den), den \div GCD(num, den)>>

\* jaccarddist(a, b) = 1 - |a & b| / |a | b|, of signatures not both empty
jaccarddist(a, b) ==
    LET inter == intersection_size(a, b, 1, 1, 0)
        union == Len(a) + Len(b) - inter
    IN Fraction(union - inter, union)

\* a cell of the output no distance was written to
Unset == <<>>

\* the reference of column j: refs[ref_indices[j]], refs[j] without ref_indices
ref_of_column_direct(c, j) == c.refs[j]

ref_of_column(c, j) ==
    IF c.ref_indices = {} THEN c.refs[j]
    ELSE c.refs[(CHOOSE S \in c.ref_indices : TRUE)[j]]

\* N': the number of columns
ncols(c) ==
    IF c.ref_indices = {} THEN Len(c.refs)
    ELSE Len(CHOOSE S \in c.ref_indices : TRUE)

\* the contiguous blocks chunksize cuts the reference axis into
chunks_whole_only(n, chunksize) ==
    IF chunksize = {} THEN {[lo |-> 1, hi |-> n]}
    ELSE LET size == CHOOSE x \in chunksize : TRUE IN
         { [lo |-> k * size + 1, hi |-> (k + 1) * size] : k \in 0..((n \div size) - 1) }

chunks(n, chunksize) ==
    IF chunksize = {} THEN {[lo |-> 1, hi |-> n]}
    ELSE LET size == CHOOSE x \in chunksize : TRUE IN
         { [lo |-> k * size + 1,
            hi |-> IF (k + 1) * size < n THEN (k + 1) * size ELSE n] :
           k \in 0..(((n + size - 1) \div size) - 1) }

\* the element type of distances and of the buffers that hold them
SCORE_DTYPE == "score_float"

\* np.empty(shape): an array of one or two axes, nothing written to it
empty(shape) ==
    IF Len(shape) = 1 THEN [j \in 1..shape[1] |-> Unset]
    ELSE [i \in 1..shape[1] |-> [j \in 1..shape[2] |-> Unset]]

\* what a caller passes as out: nothing, or a buffer of the required shape
\* or one longer along an axis, of the score type or of integers
OutBuffers(shape) ==
    {{}} \cup
    { {[shape |-> sh, dtype |-> t]} :
        sh \in { [k \in 1..Len(shape) |-> shape[k] + e[k]] : e \in [1..Len(shape) -> {0, 1}] },
        t \in {SCORE_DTYPE, "int64"} }

\* the check of out: its shape and its element type, ValueError otherwise
out_ok_shape_only(buf, shape) == \A b \in buf : b.shape = shape

out_ok(buf, shape) == \A b \in buf : b.shape = shape /\ b.dtype = SCORE_DTYPE

\* jaccarddist_matrix is called: out is checked, the output is allocated
\* when none is given, the work is cut into one unit for every query and
\* every chunk
MatrixStart ==
    /\ mpc = "idle"
    /\ \E m \in 1..MaxQueries, n \in 1..MaxRefs :
         \E ref_indices \in {{}} \cup { {S} : S \in IndexLists(n) },
            chunksize \in {{}} \cup { {x} : x \in 1..MaxChunk } :
            LET nc == ncols([refs |-> refs_of(n), ref_indices |-> ref_indices]) IN
            \E buf \in OutBuffers(<<m, nc>>) :
               LET c == [op |-> "jaccarddist_matrix", queries |-> queries_of(m),
                         refs |-> refs_of(n), ref_indices |-> ref_indices,
                         chunksize |-> chunksize, out |-> buf]
               IN /\ mcall' = c
                  /\ IF out_ok(buf, <<m, nc>>)
                     THEN /\ out' = empty(<<m, nc>>)
                          /\ tasks' = { [query |-> i, lo |-> ch.lo, hi |-> ch.hi] :
                                          i \in 1..m, ch \in chunks(nc, chunksize) }
                          /\ mpc' = "running"
                     ELSE /\ out' = empty((CHOOSE b \in buf : TRUE).shape)
                          /\ tasks' = {}
                          /\ mpc' = "raised"
    /\ progress' = 0
    /\ UNCHANGED cvars

\* jaccarddist_array(query, refs, out): out is checked, then the distance
\* from the query to every reference is written
ArrayCall ==
    /\ mpc = "idle"
    /\ \E q \in 1..MaxQueries, n \in 1..MaxRefs :
         \E buf \in OutBuffers(<<n>>) :
            /\ mcall' = [op |-> "jaccarddist_array", query |-> queries_of(q)[q],
                         refs |-> refs_of(n), out |-> buf]
            /\ IF out_ok(buf, <<n>>)
               THEN /\ out' = [j \in 1..n |-> jaccarddist(queries_of(q)[q], refs_of(n)[j])]
                    /\ mpc' = "done"
               ELSE /\ out' = empty((CHOOSE b \in buf : TRUE).shape)
                    /\ mpc' = "raised"
    /\ UNCHANGED <<tasks, progress, cvars>>

\* one unit of work: one query against one chunk of references, then the
\* progress sink is told
MatrixChunk ==
    /\ mpc = "running"
    /\ \E task \in tasks :
         /\ out' = [out EXCEPT ![task.query] =
                       [j \in DOMAIN @ |->
                           IF j \in task.lo..task.hi
                           THEN jaccarddist(mcall.queries[task.query], ref_of_column(mcall, j))
                           ELSE @[j]]]
         /\ tasks' = tasks \ {task}
         /\ progress' = progress + (task.hi - task.lo + 1)
    /\ UNCHANGED <<mpc, mcall, cvars>>

\* every unit is done: the matrix is returned
MatrixReturn ==
    /\ mpc = "running"
    /\ tasks = {}
    /\ mpc' = "done"
    /\ UNCHANGED <<mcall, out, tasks, progress, cvars>>

---------------------------------------------------------------------------
TypeOK ==
    /\ threshold \in ThresholdMaps
    /\ pc \in {"idle", "done"}

\* no matrix computation under way
MatrixIdle ==
    /\ mpc = "idle"
    /\ mcall = [op |-> "none"]
    /\ out = <<>>
    /\ tasks = {}
    /\ progress = 0

Init ==
    /\ threshold \in ThresholdMaps
    /\ pc = "idle"
    /\ call = [op |-> "none"]
    /\ ret = [op |-> "none"]
    /\ MatrixIdle

CallMatchingTaxon ==
    /\ pc = "idle"
    /\ \E t \in Taxa, d \in MatchDists :
         /\ call' = [op |-> "matching_taxon", taxon |-> t, d |-> d]
         /\ ret' = [op |-> "matching_taxon", taxon |-> matching_taxon(t, d)]
    /\ pc' = "done"
    /\ UNCHANGED <<threshold, mvars>>

CallConsensusTaxon ==
    /\ pc = "idle"
    /\ \E taxa \in SeqsUpTo(Taxa, MaxTaxa) :
         /\ call' = [op |-> "consensus_taxon", taxa |-> taxa]
         /\ ret' = [op |-> "consensus_taxon"] @@ consensus_taxon(taxa)
    /\ pc' = "done"
    /\ UNCHANGED <<threshold, mvars>>

\* classify(ref_genomes, dists, strict=...) on a non-empty list of reference
\* genomes and as many distances
CallClassify ==
    /\ pc = "idle"
    /\ \E n \in 1..MaxGenomes :
         \E ref_genomes \in [1..n -> GenomeTaxa], dists \in [1..n -> Dists], strict \in BOOLEAN :
            /\ call' = [op |-> "classify", ref_genomes |-> ref_genomes,
                                 dists |-> dists, strict |-> strict]
            /\ ret' = [op |-> "classify"] @@ classify(ref_genomes, dists, strict)
    /\ pc' = "done"
    /\ UNCHANGED <<threshold, mvars>>

\* GenomeMatch(genome=..., distance=...) with or without matched_taxon
CallGenomeMatch ==
    /\ pc = "idle"
    /\ \E t \in GenomeTaxa, d \in Dists :
         \E given \in {{}, {matching_taxon(t, d)}, {t}} :
            /\ call' = [op |-> "GenomeMatch", genome |-> AnnotatedGenome(t),
                                 distance |-> d, matched_taxon |-> given]
            /\ ret' = [op |-> "GenomeMatch"] @@ GenomeMatch_init(AnnotatedGenome(t), d, given)
    /\ pc' = "done"
    /\ UNCHANGED <<threshold, mvars>>

Next == CallMatchingTaxon \/ CallConsensusTaxon \/ CallClassify \/ CallGenomeMatch

Spec == Init /\ [][Next]_vars

\* the metric engine on its own: the classification engine is not called
InitMatrix ==
    /\ threshold = [t \in Taxa |-> {}]
    /\ pc = "idle"
    /\ call = [op |-> "none"]
    /\ ret = [op |-> "none"]
    /\ MatrixIdle

NextMatrix == MatrixStart \/ MatrixChunk \/ MatrixReturn \/ ArrayCall

SpecMatrix == InitMatrix /\ [][NextMatrix]_vars

---------------------------------------------------------------------------
(* The tree relations the claims are stated with. *)

\* t and all its ancestors
RECURSIVE UpSet(_)
UpSet(t) == IF t = None THEN {} ELSE {t} \cup UpSet(Parent[t])

Comparable(a, b) == a \in UpSet(b) \/ b \in UpSet(a)

OneLineage(S) == \A a \in S, b \in S : Comparable(a, b)

CommonAncestors(S) == { c \in Taxa : \A t \in S : c \in UpSet(t) }

LCA(S) ==
    IF CommonAncestors(S) = {} THEN None
    ELSE CHOOSE c \in CommonAncestors(S) : \A e \in CommonAncestors(S) : e \in UpSet(c)

\* the most specific member of a set lying on one lineage
Deepest(S) == CHOOSE t \in S : \A u \in S : u \in UpSet(t)

Qualifies(t, d) == \E x \in threshold[t] : d <= x

ConsensusDone == pc = "done" /\ call.op = "consensus_taxon"

MatchingDone == pc = "done" /\ call.op = "matching_taxon"

---------------------------------------------------------------------------
C2_Claim ==
    (ConsensusDone /\ ret.consensus # None)
        => \A t \in Range(call.taxa) : Comparable(ret.consensus, t)

\* C3: the crown holds only taxa of the input list.
C3_Claim == ConsensusDone => ret.crown \subseteq Range(call.taxa)

\* C4: the crown is non-empty exactly when the inputs do not all lie on one
\* lineage, a non-empty crown has at least two taxa, the empty list gives
\* (none, {}) and a one-taxon list gives (that taxon, {}).
C4_Crown ==
    ConsensusDone
        => /\ (ret.crown # {}) <=> ~OneLineage(Range(call.taxa))
           /\ ret.crown # {} => Cardinality(ret.crown) >= 2
           /\ call.taxa = <<>> => (ret.consensus = None /\ ret.crown = {})
           /\ Len(call.taxa) = 1 => (ret.consensus = call.taxa[1] /\ ret.crown = {})

C4_Witness ==
    /\ ConsensusDone
    /\ call.taxa = <<"A1", "A", "B1">>
    /\ ret.crown = {"A1", "B1"}

\* C8: matching_taxon returns the first taxon of the self-inclusive ancestor
\* chain that has a threshold with d <= threshold, none when no taxon of the
\* chain has one; a result is the starting taxon or an ancestor of it.
C8_MatchingTaxon ==
    MatchingDone
        => LET r == ret.taxon
               chain == UpSet(call.taxon)
           IN IF r = None
              THEN \A u \in chain : ~Qualifies(u, call.d)
              ELSE /\ r \in chain
                   /\ Qualifies(r, call.d)
                   /\ \A u \in chain : (u # r /\ r \in UpSet(u)) => ~Qualifies(u, call.d)

C8_Witness ==
    /\ MatchingDone
    /\ call.taxon = "A2"
    /\ threshold["A2"] = {} /\ threshold["A"] = {}
    /\ ret.taxon = "Root"

---------------------------------------------------------------------------
(* classify: what the claims are stated with. *)

ClassifyDone == pc = "done" /\ call.op = "classify"

\* the most specific taxon of t's lineage whose threshold admits d, or none
FirstQualifying(t, d) ==
    IF \E u \in UpSet(t) : Qualifies(u, d)
    THEN CHOOSE r \in UpSet(t) :
            /\ Qualifies(r, d)
            /\ \A u \in UpSet(t) : (u # r /\ r \in UpSet(u)) => ~Qualifies(u, d)
    ELSE None

\* the taxon genome i of the call matched
MatchOf(i) == FirstQualifying(call.ref_genomes[i], call.dists[i])

MatchedGenomes == { i \in 1..Len(call.ref_genomes) : MatchOf(i) # None }

MatchedTaxa == { MatchOf(i) : i \in MatchedGenomes }

\* C5: in strict mode success is false exactly when some genome matched a
\* taxon and the matched taxa have no common ancestor; then no exception is
\* raised, predicted_taxon and primary_match are none and error is a
\* non-empty message.  Every other strict result has success true and no
\* error.
C5_StrictFailure ==
    (ClassifyDone /\ call.strict)
        => IF MatchedTaxa # {} /\ CommonAncestors(MatchedTaxa) = {}
           THEN /\ ret.raised = None
                /\ ret.success = FALSE
                /\ ret.predicted_taxon = None
                /\ ret.primary_match = {}
                /\ ret.error \notin {None, ""}
           ELSE ret.raised = None => (ret.success = TRUE /\ ret.error = None)

C5_Witness ==
    /\ ClassifyDone /\ call.strict
    /\ MatchedTaxa = {"X", "A1"}
    /\ ret.success = FALSE
    /\ ret.error # None

\* C6: in strict mode with a consensus that is not none, the assertion does
\* not fail, some matched group is the consensus or below it, primary_match
\* is a genome of those groups at the least distance among them, its
\* matched_taxon is the taxon of its group and predicted_taxon is the
\* consensus.
C6_PrimaryMatch ==
    (ClassifyDone /\ call.strict)
        => LET consensus ==
                   consensus_taxon(find_matches(call.ref_genomes, call.dists).keys).consensus
               Under == { i \in MatchedGenomes : consensus \in UpSet(MatchOf(i)) }
           IN consensus # None
                => /\ ret.raised = None
                   /\ Under # {}
                   /\ ret.predicted_taxon = consensus
                   /\ Cardinality(ret.primary_match) = 1
                   /\ \A m \in ret.primary_match :
                        /\ m.genome \in Under
                        /\ m.distance = call.dists[m.genome]
                        /\ \A j \in Under : m.distance <= call.dists[j]
                        /\ m.matched_taxon = MatchOf(m.genome)

C6_Witness ==
    /\ ClassifyDone /\ call.strict
    /\ call.ref_genomes = <<"A", "A1">> /\ call.dists = <<5, 7>>
    /\ ret.predicted_taxon = "A1"
    /\ ret.closest_match.genome = 1
    /\ \E m \in ret.primary_match : m.genome = 2 /\ m.matched_taxon = "A1"

\* C7: in non-strict mode the result is a success without warnings or
\* error, closest_match is the genome at the least distance (the first of
\* them), predicted_taxon is the taxon that genome matched and primary_match
\* is closest_match when that taxon is not none, none otherwise; nothing
\* else of the input enters the result.
C7_NonStrict ==
    (ClassifyDone /\ ~call.strict)
        => LET c == ret.closest_match.genome IN
           /\ ret.raised = None
           /\ ret.success = TRUE
           /\ ret.warnings = <<>>
           /\ ret.error = None
           /\ c \in 1..Len(call.dists)
           /\ \A j \in 1..Len(call.dists) : call.dists[c] <= call.dists[j]
           /\ \A j \in 1..(c-1) : call.dists[c] < call.dists[j]
           /\ ret.closest_match = [genome |-> c, distance |-> call.dists[c],
                                   matched_taxon |-> MatchOf(c)]
           /\ ret.predicted_taxon = MatchOf(c)
           /\ ret.primary_match = IF MatchOf(c) # None THEN {ret.closest_match} ELSE {}

C7_Witness ==
    /\ ClassifyDone /\ ~call.strict
    /\ call.ref_genomes = <<"X", "A1", "A2">> /\ call.dists = <<20, 5, 7>>
    /\ ret.closest_match.genome = 2
    /\ ret.predicted_taxon = "A1"
    /\ ret.primary_match = {ret.closest_match}

\* the thresholds of the example: A1 = 0.1, A2 = 0.1, A = 0.3
ExampleThresholds ==
    threshold["A1"] = {10} /\ threshold["A2"] = {10} /\ threshold["A"] = {30}

\* C9: with those thresholds, g1 of taxon A1 at 0.05 and g2 of taxon A2 at
\* 0.07, strict classify succeeds, predicts A, has g1 as primary and closest
\* match and gives exactly one warning, naming A1 and A2; and
\* consensus_taxon([A1, A2]) is (A, {A1, A2}).
C9_EndToEnd ==
    /\ (ClassifyDone /\ call.strict /\ ExampleThresholds
          /\ call.ref_genomes = <<"A1", "A2">> /\ call.dists = <<5, 7>>)
        => /\ ret.raised = None
           /\ ret.success = TRUE
           /\ ret.predicted_taxon = "A"
           /\ \E m \in ret.primary_match : m.genome = 1
           /\ ret.closest_match.genome = 1
           /\ Len(ret.warnings) = 1
           /\ ret.warnings[1].kind = "inconsistent"
           /\ ret.warnings[1].taxa = {"A1", "A2"}
    /\ (ConsensusDone /\ call.taxa = <<"A1", "A2">>)
        => (ret.consensus = "A" /\ ret.crown = {"A1", "A2"})

C9_Witness ==
    /\ ClassifyDone /\ call.strict /\ ExampleThresholds
    /\ call.ref_genomes = <<"A1", "A2">> /\ call.dists = <<5, 7>>
    /\ ret.success = TRUE
    /\ ret.predicted_taxon = "A"

---------------------------------------------------------------------------
(* jaccarddist_matrix: what the claim is stated with. *)

SetOf(a) == { a[k] : k \in 1..Len(a) }

\* 1 - |A & B| / |A | B| of the sets two signatures stand for
SetDistance(a, b) ==
    LET u == Cardinality(SetOf(a) \cup SetOf(b))
        n == Cardinality(SetOf(a) \cap SetOf(b))
    IN CHOOSE f \in (0..u) \X (1..u) :
          /\ f[1] * u = (u - n) * f[2]
          /\ \A g \in (0..u) \X (1..u) : g[1] * u = (u - n) * g[2] => f[2] <= g[2]

MatrixDone == mpc = "done" /\ mcall.op = "jaccarddist_matrix"

\* the columns asked for: ref_indices, or every reference
Columns ==
    IF mcall.ref_indices = {} THEN [j \in 1..Len(mcall.refs) |-> j]
    ELSE CHOOSE S \in mcall.ref_indices : TRUE

\* C10: for every chunksize (none included) and every ordered list S of
\* reference positions (or all of them), the matrix returned has one row for
\* every query, one column for every member of S, and cell [i][j] is
\* jaccarddist(queries[i], refs[S[j]]).
C10_Matrix ==
    MatrixDone
        => /\ DOMAIN out = 1..Len(mcall.queries)
           /\ \A i \in DOMAIN out :
                /\ DOMAIN out[i] = 1..Len(Columns)
                /\ \A j \in DOMAIN out[i] :
                     out[i][j] = SetDistance(mcall.queries[i], mcall.refs[Columns[j]])

C10_Witness ==
    /\ MatrixDone
    /\ Len(mcall.queries) = 2
    /\ mcall.ref_indices = {<<3, 1>>}
    /\ mcall.chunksize = {1}
    /\ out[2][1] = <<1, 1>>
    /\ out[2][2] = <<1, 3>>

---------------------------------------------------------------------------
(* The out buffer of jaccarddist_array and jaccarddist_matrix. *)

\* the shape the call requires of out: (N,) or M x N'
RequiredShape ==
    IF mcall.op = "jaccarddist_array" THEN <<Len(mcall.refs)>>
    ELSE <<Len(mcall.queries), Len(Columns)>>

\* the buffer as the caller passed it: nothing written
AsPassed(b) ==
    IF Len(b.shape) = 1 THEN [j \in 1..b.shape[1] |-> <<>>]
    ELSE [i \in 1..b.shape[1] |-> [j \in 1..b.shape[2] |-> <<>>]]

\* the values the call returns without out
Returned ==
    IF mcall.op = "jaccarddist_array"
    THEN [j \in 1..Len(mcall.refs) |-> SetDistance(mcall.query, mcall.refs[j])]
    ELSE [i \in 1..Len(mcall.queries) |->
            [j \in 1..Len(Columns) |->
                SetDistance(mcall.queries[i], mcall.refs[Columns[j]])]]

\* C11: with an out buffer of another shape than required or of another
\* element type than the score type the call fails with ValueError, no
\* distance computed and the buffer as it was; with a buffer of the required
\* shape and type the call does not fail and the buffer ends holding the
\* values the call returns without out.
C11_OutBuffer ==
    (mcall.op # "none" /\ mcall.out # {})
        => \A b \in mcall.out :
              IF b.shape # RequiredShape \/ b.dtype # SCORE_DTYPE
              THEN /\ mpc = "raised"
                   /\ progress = 0
                   /\ tasks = {}
                   /\ out = AsPassed(b)
              ELSE /\ mpc # "raised"
                   /\ mpc = "done" => out = Returned

\* a buffer of the required shape and of integers is refused
C11_Witness ==
    /\ mcall.op = "jaccarddist_matrix"
    /\ mcall.out = {[shape |-> <<2, 3>>, dtype |-> "int64"]}
    /\ Len(mcall.queries) = 2 /\ Len(mcall.refs) = 3 /\ mcall.ref_indices = {}
    /\ mpc = "raised"
    /\ out = AsPassed([shape |-> <<2, 3>>])

---------------------------------------------------------------------------
GenomeMatchDone == pc = "done" /\ call.op = "GenomeMatch"

\* C12: a GenomeMatch built without matched_taxon has matched_taxon =
\* matching_taxon(genome.taxon, distance): the genome's taxon, one of its
\* ancestors, or none.
C12_Claim ==
    (GenomeMatchDone /\ call.matched_taxon = {})
        => /\ ret.raised = None
           /\ ret.matched_taxon = FirstQualifying(call.genome.taxon, call.distance)
           /\ ret.matched_taxon \in UpSet(call.genome.taxon) \cup {None}

---------------------------------------------------------------------------
\* the reorderings of a list of n
Perms(n) == { p \in [1..n -> 1..n] : \A a \in 1..n, b \in 1..n : a # b => p[a] # p[b] }

Reorder(s, p) == [k \in 1..Len(s) |-> s[p[k]]]

\* C13, first part: consensus_taxon returns the same consensus and the same
\* crown for every reordering of its input.
C13_ConsensusOrder ==
    ConsensusDone
        => \A p \in Perms(Len(call.taxa)) :
              consensus_taxon(Reorder(call.taxa, p))
                  = [consensus |-> ret.consensus, crown |-> ret.crown]

\* C13, second part: strict classify predicts the same taxon for every
\* reordering of the same (genome, distance) pairs.
C13_ClassifyOrder ==
    (ClassifyDone /\ call.strict)
        => \A p \in Perms(Len(call.ref_genomes)) :
              classify(Reorder(call.ref_genomes, p), Reorder(call.dists, p), TRUE).predicted_taxon
                  = ret.predicted_taxon

\* C13: the result of consensus_taxon does not depend on the order of its
\* input, and so strict classify predicts the same taxon for every
\* reordering of its pairs.
C13_Claim == C13_ConsensusOrder /\ C13_ClassifyOrder

=============================================================================
